---- MODULE Spec2Model ----
(***************************************************************************)
(* A model of the AST-to-IR translator of package asm (translate and       *)
(* generator.addDefsToModule), of Function.AssignIDs of package ir, and of *)
(* Alias.Type of package ir.                                               *)
(*                                                                         *)
(* Strings that the code orders or converts (type names, comdat names,     *)
(* local names) are sequences of byte values, so that sort.Strings and     *)
(* strconv.Itoa are modelled by what they compute.                         *)
(***************************************************************************)
EXTENDS Integers, Sequences, FiniteSets, TLC

VARIABLES pc, old, new, m, todo, ret, trace,
          f, calls, errs, hist, logs,
          alias, typeRet, aliasPanic

vars == <<pc, old, new, m, todo, ret, trace,
          f, calls, errs, hist, logs,
          alias, typeRet, aliasPanic>>

translateVars == <<pc, old, new, m, todo, ret, trace>>
assignVars == <<f, calls, errs, hist, logs>>
aliasVars == <<alias, typeRet, aliasPanic>>

\* ------------------------------------------------------------------------
\* Bounds and input universes.

\* Most AST top-level entities indexed by one run of translate.
MaxEntities == 2
\* Most pending blockaddress constants recorded by phase 4b.
MaxTodo == 1
\* Most top-level entities of a generator state handed to addDefsToModule
\* on its own.
MaxDefs == 3

\* Type and comdat names, as byte strings: "10", "9", "a", "ab".
TypeNames == {<<49, 48>>, <<57>>, <<97>>, <<97, 98>>}
ComdatNames == {<<49, 48>>, <<57>>, <<97>>, <<97, 98>>}
\* Attribute group IDs and metadata IDs (int64).
AttrGroupIDs == {0, 2, 10}
MetadataIDs == {0, 2, 10}
\* Global identifiers (one namespace for globals, aliases, ifuncs, functions).
GlobalIdents == {"@f", "@g", "@h"}
\* Metadata names.
MetadataNames == {"!llvm.ident", "!llvm.module.flags"}

\* ------------------------------------------------------------------------
\* Sequence helpers.

Range(s) == {s[i] : i \in DOMAIN s}

\* The orders in which a Go map with key set S may be iterated.
Perms(S) == {s \in [1..Cardinality(S) -> S] : \A i, j \in 1..Cardinality(S) : s[i] = s[j] => i = j}

Min(a, b) == IF a < b THEN a ELSE b

\* ------------------------------------------------------------------------
\* sort.Strings and sort.Slice, as addDefsToModule uses them.

\* Go's < on strings: bytewise lexicographic order.
RECURSIVE StrLess(_, _)
StrLess(a, b) ==
    IF b = <<>> THEN FALSE
    ELSE IF a = <<>> THEN TRUE
    ELSE IF Head(a) # Head(b) THEN Head(a) < Head(b)
    ELSE StrLess(Tail(a), Tail(b))

\* less of sort.Strings (StringSlice.Less).
StringsLess(a, b) == StrLess(a, b)

\* strconv.Itoa on a non-negative int: its decimal digits, as bytes.
RECURSIVE Itoa(_)
Itoa(n) == IF n < 10 THEN <<48 + n>> ELSE Itoa(n \div 10) \o <<48 + (n % 10)>>

\* IDs compared by their decimal text instead of by value.
attrGroupLessAsText(a, b) == StrLess(Itoa(a), Itoa(b))

\* less over attrGroupIDs: attrGroupIDs[i] < attrGroupIDs[j].
attrGroupLess(a, b) == a < b

\* less over metadataIDs: metadataIDs[i] < metadataIDs[j].
metadataLess(a, b) == a < b

Less(kind, a, b) ==
    CASE kind = "strings" -> StringsLess(a, b)
      [] kind = "attrGroupIDs" -> attrGroupLess(a, b)
      [] kind = "metadataIDs" -> metadataLess(a, b)

\* One insertion step: x is put before the first element it is less than.
RECURSIVE Insert(_, _, _)
Insert(kind, x, s) ==
    IF s = <<>> THEN <<x>>
    ELSE IF Less(kind, x, Head(s)) THEN <<x>> \o s
    ELSE <<Head(s)>> \o Insert(kind, x, Tail(s))

RECURSIVE InsertionSort(_, _)
InsertionSort(kind, s) ==
    IF s = <<>> THEN <<>>
    ELSE Insert(kind, s[Len(s)], InsertionSort(kind, SubSeq(s, 1, Len(s) - 1)))

Unsorted(kind, s) == s

\* sort.Strings(x) / sort.Slice(x, less): x sorted in place by less.
Sort(kind, s) == InsertionSort(kind, s)

\* ------------------------------------------------------------------------
\* Generator state.

\* An IR object: its Go type and the identifier it was created for.
Obj(kind, key) == [kind |-> kind, key |-> key]

EmptyOld ==
    [typeDefs |-> {}, comdatDefs |-> {}, globalOrder |-> <<>>,
     indirectSymbolDefOrder |-> <<>>, funcOrder |-> <<>>,
     attrGroupDefs |-> {}, namedMetadataDefOrder |-> <<>>,
     metadataDefs |-> {}, useListOrders |-> <<>>, useListOrderBBs |-> <<>>]

EmptyNew ==
    [typeDefs |-> <<>>, comdatDefs |-> <<>>, globals |-> <<>>,
     attrGroupDefs |-> <<>>, namedMetadataDefs |-> <<>>, metadataDefs |-> <<>>]

EmptyModule ==
    [TypeDefs |-> <<>>, ComdatDefs |-> <<>>, Globals |-> <<>>, Aliases |-> <<>>,
     IFuncs |-> <<>>, Funcs |-> <<>>, AttrGroupDefs |-> <<>>,
     NamedMetadataDefs |-> <<>>, MetadataDefs |-> <<>>,
     UseListOrders |-> <<>>, UseListOrderBBs |-> <<>>]

\* ------------------------------------------------------------------------
\* addDefsToModule.  st = [m, panic]: the module so far and whether a panic
\* has unwound the call.

\* The loop of AppendDefs with a missing entry skipped instead of a panic.
RECURSIVE AppendDefsSkipMissing(_, _, _, _)
AppendDefsSkipMissing(st, field, keys, table) ==
    IF st.panic \/ keys = <<>> THEN st
    ELSE IF Head(keys) \notin DOMAIN table
    THEN AppendDefsSkipMissing(st, field, Tail(keys), table)
    ELSE AppendDefsSkipMissing([st EXCEPT !.m[field] = Append(@, table[Head(keys)])],
                               field, Tail(keys), table)

\* for _, key := range keys { def, ok := table[key]; if !ok { panic }; append }
RECURSIVE AppendDefs(_, _, _, _)
AppendDefs(st, field, keys, table) ==
    IF st.panic \/ keys = <<>> THEN st
    ELSE IF Head(keys) \notin DOMAIN table THEN [st EXCEPT !.panic = TRUE]
    ELSE AppendDefs([st EXCEPT !.m[field] = Append(@, table[Head(keys)])],
                    field, Tail(keys), table)

\* Globals and functions: the entry must exist and be of the expected Go type.
RECURSIVE AppendTyped(_, _, _, _, _)
AppendTyped(st, field, kind, idents, table) ==
    IF st.panic \/ idents = <<>> THEN st
    ELSE IF Head(idents) \notin DOMAIN table THEN [st EXCEPT !.panic = TRUE]
    ELSE IF table[Head(idents)].kind # kind THEN [st EXCEPT !.panic = TRUE]
    ELSE AppendTyped([st EXCEPT !.m[field] = Append(@, table[Head(idents)])],
                     field, kind, Tail(idents), table)

\* The type switch of AppendIndirect with both cases appending to Aliases.
RECURSIVE AppendIndirectOneList(_, _, _)
AppendIndirectOneList(st, idents, table) ==
    IF st.panic \/ idents = <<>> THEN st
    ELSE IF Head(idents) \notin DOMAIN table THEN [st EXCEPT !.panic = TRUE]
    ELSE LET v == table[Head(idents)] IN
         IF v.kind \in {"Alias", "IFunc"}
         THEN AppendIndirectOneList([st EXCEPT !.m.Aliases = Append(@, v)], Tail(idents), table)
         ELSE [st EXCEPT !.panic = TRUE]

\* Indirect symbols: a type switch sends aliases and ifuncs to their lists.
RECURSIVE AppendIndirect(_, _, _)
AppendIndirect(st, idents, table) ==
    IF st.panic \/ idents = <<>> THEN st
    ELSE IF Head(idents) \notin DOMAIN table THEN [st EXCEPT !.panic = TRUE]
    ELSE LET v == table[Head(idents)] IN
         IF v.kind = "Alias"
         THEN AppendIndirect([st EXCEPT !.m.Aliases = Append(@, v)], Tail(idents), table)
         ELSE IF v.kind = "IFunc"
         THEN AppendIndirect([st EXCEPT !.m.IFuncs = Append(@, v)], Tail(idents), table)
         ELSE [st EXCEPT !.panic = TRUE]

\* it: the orders in which the four maps of gen.old are iterated in this run.
addDefs(o, n, m0, it) ==
    LET s0 == [m |-> m0, panic |-> FALSE]
        s1 == AppendDefs(s0, "TypeDefs", Sort("strings", it.typeDefs), n.typeDefs)
        s2 == AppendDefs(s1, "ComdatDefs", Sort("strings", it.comdatDefs), n.comdatDefs)
        s3 == AppendTyped(s2, "Globals", "Global", o.globalOrder, n.globals)
        s4 == AppendIndirect(s3, o.indirectSymbolDefOrder, n.globals)
        s5 == AppendTyped(s4, "Funcs", "Function", o.funcOrder, n.globals)
        s6 == AppendDefs(s5, "AttrGroupDefs", Sort("attrGroupIDs", it.attrGroupDefs), n.attrGroupDefs)
        s7 == AppendDefs(s6, "NamedMetadataDefs", o.namedMetadataDefOrder, n.namedMetadataDefs)
        s8 == AppendDefs(s7, "MetadataDefs", Sort("metadataIDs", it.metadataDefs), n.metadataDefs)
    IN s8

\* The iteration orders one run may see.
IterOrders(o) ==
    [typeDefs : Perms(o.typeDefs), comdatDefs : Perms(o.comdatDefs),
     attrGroupDefs : Perms(o.attrGroupDefs), metadataDefs : Perms(o.metadataDefs)]

\* ------------------------------------------------------------------------
\* What the phases of translate that are called from it may leave in the
\* generator.  The callees are outside this model: each is taken to return
\* either an error or any tables over the indexed identifiers, including
\* tables that lack an entry or hold an object of another Go type.

GlobalKinds == {"Global", "Alias", "IFunc", "Function"}

UsedIdents(o) == Range(o.globalOrder) \cup Range(o.indirectSymbolDefOrder) \cup Range(o.funcOrder)

\* The indexes of an AST module with one more top-level entity than o.
IndexOneMore(o) ==
    {[o EXCEPT !.typeDefs = @ \cup {x}] : x \in TypeNames \ o.typeDefs}
    \cup {[o EXCEPT !.comdatDefs = @ \cup {x}] : x \in ComdatNames \ o.comdatDefs}
    \cup {[o EXCEPT !.attrGroupDefs = @ \cup {x}] : x \in AttrGroupIDs \ o.attrGroupDefs}
    \cup {[o EXCEPT !.metadataDefs = @ \cup {x}] : x \in MetadataIDs \ o.metadataDefs}
    \cup {[o EXCEPT !.globalOrder = Append(@, x)] : x \in GlobalIdents \ UsedIdents(o)}
    \cup {[o EXCEPT !.indirectSymbolDefOrder = Append(@, x)] : x \in GlobalIdents \ UsedIdents(o)}
    \cup {[o EXCEPT !.funcOrder = Append(@, x)] : x \in GlobalIdents \ UsedIdents(o)}
    \cup {[o EXCEPT !.namedMetadataDefOrder = Append(@, x)] :
             x \in MetadataNames \ Range(o.namedMetadataDefOrder)}
    \cup {[o EXCEPT !.useListOrders = Append(@, Len(@) + 1)]}
    \cup {[o EXCEPT !.useListOrderBBs = Append(@, Len(@) + 1)]}

\* The indexes of AST modules with at most k top-level entities.
RECURSIVE IndexStates(_)
IndexStates(k) ==
    IF k = 0 THEN {EmptyOld}
    ELSE LET S == IndexStates(k - 1) IN S \cup UNION {IndexOneMore(o) : o \in S}

\* Tables of objects of one Go type over some of the given keys.
Tables(kind, keys) == {[k \in D |-> Obj(kind, k)] : D \in SUBSET keys}

\* Tables of global objects, of any of the four Go types, over some of the keys.
GlobalTables(keys) ==
    UNION {{[k \in D |-> Obj(c[k], k)] : c \in [D -> GlobalKinds]} : D \in SUBSET keys}

\* ------------------------------------------------------------------------
\* translate.

NoError == [phase |-> "none", iter |-> 0]
Error(phase, iter) == [phase |-> phase, iter |-> iter]

Running == [kind |-> "running", module |-> FALSE, err |-> NoError]
\* return nil, errors.WithStack(err)
ReturnError(e) == [kind |-> "returned", module |-> FALSE, err |-> e]
\* return gen.m, nil
ReturnModule == [kind |-> "returned", module |-> TRUE, err |-> NoError]
\* A panic unwinds translate: it returns nothing.
Panicked == [kind |-> "panicked", module |-> FALSE, err |-> NoError]

Step(phase, iter, failed) == [phase |-> phase, iter |-> iter, failed |-> failed]

\* Where translate continues after phase 6, 5 and 4b: a loop over an empty
\* list runs no iteration.  (PcAfter6SkipsFixups: phase 8 entered with the
\* loop of phase 7 left out.)
PcAfter6SkipsFixups(td) == "p8"
PcAfter6(td) == IF Len(td) > 0 THEN "p7" ELSE "p8"
PcAfter5(o, td) == IF Len(o.useListOrderBBs) > 0 THEN "p6" ELSE PcAfter6(td)
PcAfter4b(o, td) == IF Len(o.useListOrders) > 0 THEN "p5" ELSE PcAfter5(o, td)

\* The early return of a failed phase.
Fail(phase, iter) ==
    /\ ret' = ReturnError(Error(phase, iter))
    /\ pc' = "done"
    /\ trace' = Append(trace, Step(phase, iter, TRUE))

\* 1. gen.indexTopLevelEntities(old)
indexTopLevelEntities ==
    /\ pc = "p1"
    /\ \/ /\ Fail("1", 0)
          /\ UNCHANGED <<old, new, m, todo>>
       \/ /\ old' \in IndexStates(MaxEntities)
          /\ pc' = "p2"
          /\ trace' = Append(trace, Step("1", 0, FALSE))
          /\ UNCHANGED <<new, m, todo, ret>>
    /\ UNCHANGED <<assignVars, aliasVars>>

\* 2. gen.resolveTypeDefs()
resolveTypeDefs ==
    /\ pc = "p2"
    /\ \/ /\ Fail("2", 0)
          /\ UNCHANGED <<old, new, m, todo>>
       \/ /\ \E t \in Tables("TypeDef", old.typeDefs) : new' = [new EXCEPT !.typeDefs = t]
          /\ pc' = "p3"
          /\ trace' = Append(trace, Step("2", 0, FALSE))
          /\ UNCHANGED <<old, m, todo, ret>>
    /\ UNCHANGED <<assignVars, aliasVars>>

\* 3. gen.translateComdatDefs()
translateComdatDefs ==
    /\ pc = "p3"
    /\ \/ /\ Fail("3", 0)
          /\ UNCHANGED <<old, new, m, todo>>
       \/ /\ \E t \in Tables("ComdatDef", old.comdatDefs) : new' = [new EXCEPT !.comdatDefs = t]
          /\ pc' = "p4a"
          /\ trace' = Append(trace, Step("3", 0, FALSE))
          /\ UNCHANGED <<old, m, todo, ret>>
    /\ UNCHANGED <<assignVars, aliasVars>>

\* 4a. gen.createTopLevelEntities()
createTopLevelEntities ==
    /\ pc = "p4a"
    /\ \/ /\ Fail("4a", 0)
          /\ UNCHANGED <<old, new, m, todo>>
       \/ /\ \E g \in GlobalTables(UsedIdents(old)),
                a \in Tables("AttrGroupDef", old.attrGroupDefs),
                nm \in Tables("NamedMetadataDef", Range(old.namedMetadataDefOrder)),
                md \in Tables("MetadataDef", old.metadataDefs) :
                new' = [new EXCEPT !.globals = g, !.attrGroupDefs = a,
                                   !.namedMetadataDefs = nm, !.metadataDefs = md]
          /\ pc' = "p4b"
          /\ trace' = Append(trace, Step("4a", 0, FALSE))
          /\ UNCHANGED <<old, m, todo, ret>>
    /\ UNCHANGED <<assignVars, aliasVars>>

\* 4b. gen.translateTopLevelEntities(); it records the blockaddress constants
\* to fix in gen.todo (FALSE: not yet fixed).
translateTopLevelEntities ==
    /\ pc = "p4b"
    /\ \/ /\ Fail("4b", 0)
          /\ UNCHANGED <<old, new, m, todo>>
       \/ /\ \E n \in 0..MaxTodo : todo' = [i \in 1..n |-> FALSE]
          /\ pc' = PcAfter4b(old, todo')
          /\ trace' = Append(trace, Step("4b", 0, FALSE))
          /\ UNCHANGED <<old, new, m, ret>>
    /\ UNCHANGED <<assignVars, aliasVars>>

\* 5. One iteration of the loop over gen.old.useListOrders.
irUseListOrder ==
    /\ pc = "p5"
    /\ LET i == Len(m.UseListOrders) + 1 IN
       \/ /\ Fail("5", i)
          /\ UNCHANGED <<old, new, m, todo>>
       \/ /\ m' = [m EXCEPT !.UseListOrders = Append(@, Obj("UseListOrder", old.useListOrders[i]))]
          /\ pc' = IF i < Len(old.useListOrders) THEN "p5" ELSE PcAfter5(old, todo)
          /\ trace' = Append(trace, Step("5", i, FALSE))
          /\ UNCHANGED <<old, new, todo, ret>>
    /\ UNCHANGED <<assignVars, aliasVars>>

\* 6. One iteration of the loop over gen.old.useListOrderBBs.
irUseListOrderBB ==
    /\ pc = "p6"
    /\ LET i == Len(m.UseListOrderBBs) + 1 IN
       \/ /\ Fail("6", i)
          /\ UNCHANGED <<old, new, m, todo>>
       \/ /\ m' = [m EXCEPT !.UseListOrderBBs = Append(@, Obj("UseListOrderBB", old.useListOrderBBs[i]))]
          /\ pc' = IF i < Len(old.useListOrderBBs) THEN "p6" ELSE PcAfter6(todo)
          /\ trace' = Append(trace, Step("6", i, FALSE))
          /\ UNCHANGED <<old, new, todo, ret>>
    /\ UNCHANGED <<assignVars, aliasVars>>

\* 7. One iteration of the loop over gen.todo.
fixBlockAddressConst ==
    /\ pc = "p7"
    /\ LET i == Cardinality({j \in DOMAIN todo : todo[j]}) + 1 IN
       \/ /\ Fail("7", i)
          /\ UNCHANGED <<old, new, m, todo>>
       \/ /\ todo' = [todo EXCEPT ![i] = TRUE]
          /\ pc' = IF i < Len(todo) THEN "p7" ELSE "p8"
          /\ trace' = Append(trace, Step("7", i, FALSE))
          /\ UNCHANGED <<old, new, m, ret>>
    /\ UNCHANGED <<assignVars, aliasVars>>

\* 8. gen.addDefsToModule(); return gen.m, nil
addDefsToModule ==
    /\ pc = "p8"
    /\ \E it \in IterOrders(old) :
          LET r == addDefs(old, new, m, it) IN
          /\ m' = r.m
          /\ ret' = IF r.panic THEN Panicked ELSE ReturnModule
    /\ pc' = "done"
    /\ trace' = Append(trace, Step("8", 0, FALSE))
    /\ UNCHANGED <<old, new, todo>>
    /\ UNCHANGED <<assignVars, aliasVars>>

\* ------------------------------------------------------------------------
\* Function.AssignIDs.
\*
\* A named value is [class, name, void]: its Go type, its name as a byte
\* string ("" for unnamed) and whether its Type() is types.Void.  A function
\* is [Params, Blocks], a block [name, Insts, Term].

\* Local names the entities of a function carry before IDs are assigned:
\* "", "0", "1", "x".
LocalNames == {<<>>, <<48>>, <<49>>, <<120>>}

\* Most parameters, blocks, instructions and terminators of a function.
MaxSlots == 4
\* Most calls of AssignIDs on one function.
MaxCalls == 2

Param(name) == [class |-> "Param", name |-> name, void |-> FALSE]

\* Names that calls and invokes of void type carry: "", "0".
VoidNames == {<<>>, <<48>>}

\* Instructions: store (no result, not a value.Named), add and sub (results
\* of operand type), call (result of the callee's return type).
Insts ==
    {[class |-> "InstStore", name |-> <<>>, void |-> TRUE]}
    \cup {[class |-> "InstAdd", name |-> n, void |-> FALSE] : n \in LocalNames}
    \cup {[class |-> "InstCall", name |-> n, void |-> FALSE] : n \in LocalNames}
    \cup {[class |-> "InstCall", name |-> n, void |-> TRUE] : n \in VoidNames}

\* Terminators: ret (not a value.Named) and invoke.
Terms ==
    {[class |-> "TermRet", name |-> <<>>, void |-> TRUE]}
    \cup {[class |-> "TermInvoke", name |-> n, void |-> FALSE] : n \in LocalNames}
    \cup {[class |-> "TermInvoke", name |-> n, void |-> TRUE] : n \in VoidNames}

\* block.Term of a block whose terminator is not set yet: a nil interface.
NilTerm == [class |-> "nil", name |-> <<>>, void |-> FALSE]

\* The Go types that implement value.Named.
ImplementsNamed(n) ==
    n.class \in {"Param", "Block", "InstAdd", "InstSub", "InstCall", "TermInvoke"}

isUnnamed(name) == Len(name) = 0

isLocalID(name) == Len(name) > 0 /\ \A i \in DOMAIN name : name[i] \in 48..57

isVoidValue(n) ==
    IF n.class \in {"InstCall", "TermInvoke"} THEN n.void ELSE FALSE

NilError == [bad |-> FALSE, want |-> <<>>, got |-> <<>>]
\* errors.Errorf("invalid local ID in function %q, expected %s, got %s", ...)
BadLocalID(want, got) == [bad |-> TRUE, want |-> want, got |-> got]

\* The closure setName without id++ after naming an unnamed value.
setNameNoAdvance(id, n) ==
    IF isUnnamed(n.name)
    THEN [n |-> [n EXCEPT !.name = Itoa(id)], id |-> id, err |-> NilError]
    ELSE IF isLocalID(n.name)
    THEN IF Itoa(id) # n.name
         THEN [n |-> n, id |-> id, err |-> BadLocalID(Itoa(id), n.name)]
         ELSE [n |-> n, id |-> id + 1, err |-> NilError]
    ELSE [n |-> n, id |-> id, err |-> NilError]

\* The closure setName without id++ after a local ID that matched.
setNameNoAdvanceOnMatch(id, n) ==
    IF isUnnamed(n.name)
    THEN [n |-> [n EXCEPT !.name = Itoa(id)], id |-> id + 1, err |-> NilError]
    ELSE IF isLocalID(n.name)
    THEN IF Itoa(id) # n.name
         THEN [n |-> n, id |-> id, err |-> BadLocalID(Itoa(id), n.name)]
         ELSE [n |-> n, id |-> id, err |-> NilError]
    ELSE [n |-> n, id |-> id, err |-> NilError]

\* The closure setName with a local ID that does not match renumbered
\* instead of reported.
setNameRenumbers(id, n) ==
    IF isUnnamed(n.name) \/ isLocalID(n.name)
    THEN [n |-> [n EXCEPT !.name = Itoa(id)], id |-> id + 1, err |-> NilError]
    ELSE [n |-> n, id |-> id, err |-> NilError]

\* The closure setName, with the counter id passed in and out.
setName(id, n) ==
    IF isUnnamed(n.name)
    THEN [n |-> [n EXCEPT !.name = Itoa(id)], id |-> id + 1, err |-> NilError]
    ELSE IF isLocalID(n.name)
    THEN IF Itoa(id) # n.name
         THEN [n |-> n, id |-> id, err |-> BadLocalID(Itoa(id), n.name)]
         ELSE [n |-> n, id |-> id + 1, err |-> NilError]
    ELSE [n |-> n, id |-> id, err |-> NilError]

\* One call of setName in the walk; st = [id, err, log], log recording the
\* calls of setName made so far.
visit(st, n) ==
    LET r == setName(st.id, n) IN
    [st |-> [id |-> r.id, err |-> r.err,
             log |-> Append(st.log, [before |-> n, id |-> st.id, after |-> r.n,
                                     idAfter |-> r.id, failed |-> r.err.bad])],
     n |-> r.n]

\* The body of the loops over block.Insts and of the code for block.Term:
\* values that are not value.Named and void values are passed over.
visitValue(st, n) ==
    IF ~ImplementsNamed(n) THEN [st |-> st, n |-> n]
    ELSE IF isVoidValue(n) THEN [st |-> st, n |-> n]
    ELSE visit(st, n)

\* for _, param := range f.Params { setName(param) }; an error returns.
\* (r and rest are bound as values: the step taken and the rest of the loop.)
RECURSIVE walkParams(_, _)
walkParams(st, params) ==
    IF params = <<>> \/ st.err.bad THEN [st |-> st, out |-> params]
    ELSE CHOOSE res \in UNION {{[st |-> rest.st, out |-> <<r.n>> \o rest.out] :
                                   rest \in {walkParams(r.st, Tail(params))}} :
                               r \in {visit(st, Head(params))}} : TRUE

\* for _, inst := range block.Insts { ... }
RECURSIVE walkInsts(_, _)
walkInsts(st, insts) ==
    IF insts = <<>> \/ st.err.bad THEN [st |-> st, out |-> insts]
    ELSE CHOOSE res \in UNION {{[st |-> rest.st, out |-> <<r.n>> \o rest.out] :
                                   rest \in {walkInsts(r.st, Tail(insts))}} :
                               r \in {visitValue(st, Head(insts))}} : TRUE

\* The code for block.Term, unless the loop over block.Insts has returned.
walkTerm(ri, block) ==
    IF ri.st.err.bad THEN [st |-> ri.st, n |-> block.Term]
    ELSE visitValue(ri.st, block.Term)

\* The loop body over a block, without the call of setName on the block.
walkBlockUnnumbered(st, block) ==
    CHOOSE res \in UNION {{[st |-> rt.st,
                            out |-> [name |-> block.name, Insts |-> ri.out, Term |-> rt.n]] :
                              rt \in {walkTerm(ri, block)}} :
                          ri \in {walkInsts(st, block.Insts)}} : TRUE

\* The loop over block.Insts, unless setName(block) has returned an error.
walkBody(rb, block) ==
    IF rb.st.err.bad THEN [st |-> rb.st, out |-> block.Insts]
    ELSE walkInsts(rb.st, block.Insts)

\* The body of the loop over f.Blocks: the block, its instructions, its
\* terminator.
walkBlock(st, block) ==
    CHOOSE res \in UNION {UNION {{[st |-> rt.st,
                                   out |-> [name |-> rb.n.name, Insts |-> ri.out, Term |-> rt.n]] :
                                     rt \in {walkTerm(ri, block)}} :
                                 ri \in {walkBody(rb, block)}} :
                          rb \in {visit(st, [class |-> "Block", name |-> block.name,
                                             void |-> FALSE])}} : TRUE

RECURSIVE walkBlocks(_, _)
walkBlocks(st, blocks) ==
    IF blocks = <<>> \/ st.err.bad THEN [st |-> st, out |-> blocks]
    ELSE CHOOSE res \in UNION {{[st |-> rest.st, out |-> <<r.out>> \o rest.out] :
                                   rest \in {walkBlocks(r.st, Tail(blocks))}} :
                               r \in {walkBlock(st, Head(blocks))}} : TRUE

\* f.AssignIDs(): the function as the call leaves it, the error returned and
\* the calls of setName made.
AssignIDs(fn) ==
    IF Len(fn.Blocks) = 0 THEN [f |-> fn, err |-> NilError, log |-> <<>>]
    ELSE CHOOSE res \in UNION {{[f |-> [Params |-> rp.out, Blocks |-> rb.out],
                                 err |-> rb.st.err, log |-> rb.st.log] :
                                   rb \in {walkBlocks(rp.st, fn.Blocks)}} :
                               rp \in {walkParams([id |-> 0, err |-> NilError, log |-> <<>>],
                                                  fn.Params)}} : TRUE

\* The zero Function: no parameters, no blocks.
EmptyFunction == [Params |-> <<>>, Blocks |-> <<>>]

\* func(i32, i32 %x, i32) with one unnamed block: add, sub, ret.
PackingFunction ==
    [Params |-> <<Param(<<>>), Param(<<120>>), Param(<<>>)>>,
     Blocks |-> <<[name |-> <<>>,
                   Insts |-> <<[class |-> "InstAdd", name |-> <<>>, void |-> FALSE],
                               [class |-> "InstSub", name |-> <<>>, void |-> FALSE]>>,
                   Term |-> [class |-> "TermRet", name |-> <<>>, void |-> TRUE]]>>]

RECURSIVE BlockSlots(_)
BlockSlots(blocks) ==
    IF blocks = <<>> THEN 0
    ELSE 1 + Len(Head(blocks).Insts) + (IF Head(blocks).Term = NilTerm THEN 0 ELSE 1)
           + BlockSlots(Tail(blocks))

Slots(fn) == Len(fn.Params) + BlockSlots(fn.Blocks)

\* f.Params = append(f.Params, param)
AppendParam ==
    /\ calls = 0 /\ Slots(f) < MaxSlots
    /\ \E n \in LocalNames : f' = [f EXCEPT !.Params = Append(@, Param(n))]
    /\ UNCHANGED <<calls, errs, hist, logs, translateVars, aliasVars>>

\* f.Blocks = append(f.Blocks, block), the block empty and without terminator.
AppendBlock ==
    /\ calls = 0 /\ Slots(f) < MaxSlots
    /\ \E n \in LocalNames :
          f' = [f EXCEPT !.Blocks = Append(@, [name |-> n, Insts |-> <<>>, Term |-> NilTerm])]
    /\ UNCHANGED <<calls, errs, hist, logs, translateVars, aliasVars>>

\* block.Insts = append(block.Insts, inst) on the last block, before its
\* terminator is set.
AppendInst ==
    /\ calls = 0 /\ Slots(f) < MaxSlots
    /\ Len(f.Blocks) > 0 /\ f.Blocks[Len(f.Blocks)].Term = NilTerm
    /\ \E i \in Insts : f' = [f EXCEPT !.Blocks[Len(f.Blocks)].Insts = Append(@, i)]
    /\ UNCHANGED <<calls, errs, hist, logs, translateVars, aliasVars>>

\* block.Term = term on the last block.
SetTerm ==
    /\ calls = 0 /\ Slots(f) < MaxSlots
    /\ Len(f.Blocks) > 0 /\ f.Blocks[Len(f.Blocks)].Term = NilTerm
    /\ \E t \in Terms : f' = [f EXCEPT !.Blocks[Len(f.Blocks)].Term = t]
    /\ UNCHANGED <<calls, errs, hist, logs, translateVars, aliasVars>>

\* err := f.AssignIDs()
CallAssignIDs ==
    /\ calls < MaxCalls
    /\ \E r \in {AssignIDs(f)} :
       /\ f' = r.f
       /\ errs' = Append(errs, r.err)
       /\ hist' = Append(hist, [before |-> f, after |-> r.f])
       /\ logs' = Append(logs, r.log)
    /\ calls' = calls + 1
    /\ UNCHANGED <<translateVars, aliasVars>>

\* ------------------------------------------------------------------------
\* Alias: NewAlias, the field Aliasee, Alias.Type.

PointerTypes == {[kind |-> "pointer", elem |-> e] : e \in {"i8", "i32", "i64"}}
OtherTypes == {[kind |-> "int", elem |-> e] : e \in {"i8", "i32"}}

\* Constants an alias may refer to: each has a type.
Aliasees == [name : {"@a", "@b"}, typ : PointerTypes \cup OtherTypes]

\* A nil *types.PointerType, and no value returned.
NilType == [kind |-> "nil", elem |-> ""]
\* Names given to aliases.
AliasNames == {"x", "y"}
\* No alias.
NoAlias == [GlobalName |-> "", Aliasee |-> [name |-> "", typ |-> NilType], Typ |-> NilType]

\* a.Type(): the alias as the call leaves it, the type returned, whether the
\* call panicked.
Type(a) ==
    IF a.Typ = NilType
    THEN IF a.Aliasee.typ.kind # "pointer"
         THEN [a |-> a, typ |-> NilType, panic |-> TRUE]
         ELSE [a |-> [a EXCEPT !.Typ = a.Aliasee.typ], typ |-> a.Aliasee.typ, panic |-> FALSE]
    ELSE [a |-> a, typ |-> a.Typ, panic |-> FALSE]

\* alias := NewAlias(name, aliasee)
NewAlias ==
    /\ ~aliasPanic
    /\ \E name \in AliasNames, c \in Aliasees :
          LET r == Type([GlobalName |-> name, Aliasee |-> c, Typ |-> NilType]) IN
          /\ alias' = IF r.panic THEN NoAlias ELSE r.a
          /\ aliasPanic' = r.panic
    /\ typeRet' = NilType
    /\ UNCHANGED <<translateVars, assignVars>>

\* alias.Aliasee = aliasee
SetAliasee ==
    /\ ~aliasPanic /\ alias # NoAlias
    /\ \E c \in Aliasees : alias' = [alias EXCEPT !.Aliasee = c]
    /\ typeRet' = NilType
    /\ UNCHANGED <<aliasPanic, translateVars, assignVars>>

\* typeRet = alias.Type()
CallType ==
    /\ ~aliasPanic /\ alias # NoAlias
    /\ LET r == Type(alias) IN
       /\ alias' = r.a
       /\ typeRet' = r.typ
       /\ aliasPanic' = r.panic
    /\ UNCHANGED <<translateVars, assignVars>>

\* ------------------------------------------------------------------------
\* Specifications.

\* The variables of the parts a specification does not exercise.
TranslateIdle ==
    /\ pc = "idle" /\ old = EmptyOld /\ new = EmptyNew /\ m = EmptyModule
    /\ todo = <<>> /\ ret = Running /\ trace = <<>>

AssignIdle == f = EmptyFunction /\ calls = 0 /\ errs = <<>> /\ hist = <<>> /\ logs = <<>>

AliasIdle == alias = NoAlias /\ typeRet = NilType /\ aliasPanic = FALSE

\* translate(old): gen := newGenerator() leaves every table empty.
Init ==
    /\ pc = "p1" /\ old = EmptyOld /\ new = EmptyNew /\ m = EmptyModule
    /\ todo = <<>> /\ ret = Running /\ trace = <<>>
    /\ AssignIdle /\ AliasIdle

Next ==
    \/ indexTopLevelEntities
    \/ resolveTypeDefs
    \/ translateComdatDefs
    \/ createTopLevelEntities
    \/ translateTopLevelEntities
    \/ irUseListOrder
    \/ irUseListOrderBB
    \/ fixBlockAddressConst
    \/ addDefsToModule

Spec == Init /\ [][Next]_vars

\* The order list of the recorded identifiers whose IR object has one of the
\* given Go types, in the order p of their occurrence in the input.
OrderOf(p, table, kinds) == SelectSeq(p, LAMBDA x : table[x].kind \in kinds)

\* addDefsToModule on its own: translate has reached phase 8 with no use-list
\* orders and no pending constants.  The generator holds at most MaxDefs
\* top-level entities; each has its IR object (xN: the keys of the IR-side
\* table), and is indexed on the AST side (xO) or is on the IR side only.
InitAssemble ==
    /\ pc = "p8" /\ m = EmptyModule /\ todo = <<>> /\ ret = Running
    /\ trace = <<Step("1", 0, FALSE), Step("2", 0, FALSE), Step("3", 0, FALSE),
                 Step("4a", 0, FALSE), Step("4b", 0, FALSE)>>
    /\ AssignIdle /\ AliasIdle
    /\ \E tN \in SUBSET TypeNames :
       /\ Cardinality(tN) <= MaxDefs
       /\ \E cN \in SUBSET ComdatNames :
          /\ Cardinality(tN) + Cardinality(cN) <= MaxDefs
          /\ \E aN \in SUBSET AttrGroupIDs :
             /\ Cardinality(tN) + Cardinality(cN) + Cardinality(aN) <= MaxDefs
             /\ \E mN \in SUBSET MetadataIDs :
                /\ Cardinality(tN) + Cardinality(cN) + Cardinality(aN)
                     + Cardinality(mN) <= MaxDefs
                /\ \E nN \in SUBSET MetadataNames :
                   /\ Cardinality(tN) + Cardinality(cN) + Cardinality(aN)
                        + Cardinality(mN) + Cardinality(nN) <= MaxDefs
                   /\ \E gN \in SUBSET GlobalIdents :
                      /\ Cardinality(tN) + Cardinality(cN) + Cardinality(aN)
                           + Cardinality(mN) + Cardinality(nN) + Cardinality(gN) <= MaxDefs
                      /\ \E tO \in SUBSET tN, cO \in SUBSET cN, aO \in SUBSET aN,
                            mO \in SUBSET mN, nO \in SUBSET nN, gO \in SUBSET gN :
                         \E np \in Perms(nO), gp \in Perms(gO), gk \in [gN -> GlobalKinds] :
                            LET g == [x \in gN |-> Obj(gk[x], x)] IN
                            /\ new = [typeDefs |-> [x \in tN |-> Obj("TypeDef", x)],
                                      comdatDefs |-> [x \in cN |-> Obj("ComdatDef", x)],
                                      globals |-> g,
                                      attrGroupDefs |-> [x \in aN |-> Obj("AttrGroupDef", x)],
                                      namedMetadataDefs |-> [x \in nN |-> Obj("NamedMetadataDef", x)],
                                      metadataDefs |-> [x \in mN |-> Obj("MetadataDef", x)]]
                            /\ old = [typeDefs |-> tO, comdatDefs |-> cO,
                                      globalOrder |-> OrderOf(gp, g, {"Global"}),
                                      indirectSymbolDefOrder |-> OrderOf(gp, g, {"Alias", "IFunc"}),
                                      funcOrder |-> OrderOf(gp, g, {"Function"}),
                                      attrGroupDefs |-> aO, namedMetadataDefOrder |-> np,
                                      metadataDefs |-> mO,
                                      useListOrders |-> <<>>, useListOrderBBs |-> <<>>]

NextAssemble == addDefsToModule

SpecAssemble == InitAssemble /\ [][NextAssemble]_vars

\* A function under construction, or the function of the packing scenario,
\* on which AssignIDs is called.
InitAssign ==
    /\ f \in {EmptyFunction, PackingFunction}
    /\ calls = 0 /\ errs = <<>> /\ hist = <<>> /\ logs = <<>>
    /\ TranslateIdle /\ AliasIdle

NextAssign ==
    \/ AppendParam
    \/ AppendBlock
    \/ AppendInst
    \/ SetTerm
    \/ CallAssignIDs

SpecAssign == InitAssign /\ [][NextAssign]_vars

\* No alias has been made.
InitAlias ==
    /\ alias = NoAlias /\ typeRet = NilType /\ aliasPanic = FALSE
    /\ TranslateIdle /\ AssignIdle

NextAlias ==
    \/ NewAlias
    \/ SetAliasee
    \/ CallType

SpecAlias == InitAlias /\ [][NextAlias]_vars

\* ------------------------------------------------------------------------
\* Properties of addDefsToModule (under SpecAssemble) and translate (Spec).

Last(s) == s[Len(s)]

\* a comes before b in alphabetical (bytewise lexicographic) order.
AlphaBefore(a, b) ==
    \E i \in 1..(Min(Len(a), Len(b)) + 1) :
       /\ \A j \in 1..(i - 1) : a[j] = b[j]
       /\ \/ i > Len(a) /\ i <= Len(b)
          \/ i <= Len(a) /\ i <= Len(b) /\ a[i] < b[i]

\* list holds the entry of table for each key of keys, once.
OnePerKey(list, keys, table) ==
    /\ Len(list) = Cardinality(keys)
    /\ \A k \in keys : \E i \in DOMAIN list : list[i] = table[k]

AllKeysPresent ==
    /\ old.typeDefs \subseteq DOMAIN new.typeDefs
    /\ old.comdatDefs \subseteq DOMAIN new.comdatDefs
    /\ old.attrGroupDefs \subseteq DOMAIN new.attrGroupDefs
    /\ old.metadataDefs \subseteq DOMAIN new.metadataDefs
    /\ Range(old.namedMetadataDefOrder) \subseteq DOMAIN new.namedMetadataDefs
    /\ UsedIdents(old) \subseteq DOMAIN new.globals

AllKindsRight ==
    /\ \A x \in Range(old.globalOrder) \cap DOMAIN new.globals :
          new.globals[x].kind = "Global"
    /\ \A x \in Range(old.indirectSymbolDefOrder) \cap DOMAIN new.globals :
          new.globals[x].kind \in {"Alias", "IFunc"}
    /\ \A x \in Range(old.funcOrder) \cap DOMAIN new.globals :
          new.globals[x].kind = "Function"

\* C1: after addDefsToModule on a generator whose IR-side tables hold every
\* AST-side key, m.TypeDefs and m.ComdatDefs hold one entry per key of
\* gen.old.typeDefs / comdatDefs in ascending alphabetical order of name, and
\* m.AttrGroupDefs and m.MetadataDefs one entry per key of
\* gen.old.attrGroupDefs / metadataDefs in strictly ascending numeric order.
C1_SortedDefs ==
    (pc = "done" /\ AllKeysPresent /\ AllKindsRight) =>
       /\ ret = ReturnModule
       /\ OnePerKey(m.TypeDefs, old.typeDefs, new.typeDefs)
       /\ \A i \in 1..(Len(m.TypeDefs) - 1) :
             AlphaBefore(m.TypeDefs[i].key, m.TypeDefs[i + 1].key)
       /\ OnePerKey(m.ComdatDefs, old.comdatDefs, new.comdatDefs)
       /\ \A i \in 1..(Len(m.ComdatDefs) - 1) :
             AlphaBefore(m.ComdatDefs[i].key, m.ComdatDefs[i + 1].key)
       /\ OnePerKey(m.AttrGroupDefs, old.attrGroupDefs, new.attrGroupDefs)
       /\ \A i \in 1..(Len(m.AttrGroupDefs) - 1) :
             m.AttrGroupDefs[i].key < m.AttrGroupDefs[i + 1].key
       /\ OnePerKey(m.MetadataDefs, old.metadataDefs, new.metadataDefs)
       /\ \A i \in 1..(Len(m.MetadataDefs) - 1) :
             m.MetadataDefs[i].key < m.MetadataDefs[i + 1].key

\* Three attribute groups whose numeric and textual orders differ (0, 2, 10)
\* and two type names were assembled, with an extra IR-side type.
C1_Witness ==
    /\ pc = "done" /\ ret = ReturnModule
    /\ old.attrGroupDefs = {0, 2, 10}
    /\ Len(m.AttrGroupDefs) = 3

\* The IR objects of the identifiers of an order list, in that order.
Mapped(order, table) == [i \in 1..Len(order) |-> table[order[i]]]

\* How often an object for identifier x occurs in list.
Occurrences(list, x) == Cardinality({i \in DOMAIN list : list[i].key = x})

\* C2: after addDefsToModule, m.Globals, m.Funcs and m.NamedMetadataDefs list
\* the IR entities of globalOrder, funcOrder and namedMetadataDefOrder in that
\* recorded order, m.Aliases and m.IFuncs are the subsequences of aliases,
\* resp. ifuncs, of indirectSymbolDefOrder, and every recorded identifier is
\* emitted exactly once, into exactly one list.
C2_SourceOrder ==
    (pc = "done" /\ ret = ReturnModule) =>
       /\ m.Globals = Mapped(old.globalOrder, new.globals)
       /\ m.Funcs = Mapped(old.funcOrder, new.globals)
       /\ m.NamedMetadataDefs = Mapped(old.namedMetadataDefOrder, new.namedMetadataDefs)
       /\ m.Aliases = SelectSeq(Mapped(old.indirectSymbolDefOrder, new.globals),
                                LAMBDA v : v.kind = "Alias")
       /\ m.IFuncs = SelectSeq(Mapped(old.indirectSymbolDefOrder, new.globals),
                               LAMBDA v : v.kind = "IFunc")
       /\ \A x \in UsedIdents(old) :
             Occurrences(m.Globals, x) + Occurrences(m.Aliases, x)
               + Occurrences(m.IFuncs, x) + Occurrences(m.Funcs, x) = 1
       /\ \A x \in GlobalIdents \ UsedIdents(old) :
             Occurrences(m.Globals, x) + Occurrences(m.Aliases, x)
               + Occurrences(m.IFuncs, x) + Occurrences(m.Funcs, x) = 0
       /\ \A x \in Range(old.namedMetadataDefOrder) : Occurrences(m.NamedMetadataDefs, x) = 1

\* An ifunc recorded before an alias, and a function: both indirect-symbol
\* lists and the function list were written.
C2_Witness ==
    /\ pc = "done" /\ ret = ReturnModule
    /\ Len(old.indirectSymbolDefOrder) = 2
    /\ new.globals[old.indirectSymbolDefOrder[1]].kind = "IFunc"
    /\ new.globals[old.indirectSymbolDefOrder[2]].kind = "Alias"
    /\ Len(m.Funcs) = 1

\* The module as phase 8 finds it: only the use-list orders are set.
BeforePhase8(mm) ==
    [EmptyModule EXCEPT !.UseListOrders = mm.UseListOrders,
                        !.UseListOrderBBs = mm.UseListOrderBBs]

\* C8: the lists written by addDefsToModule depend on the generator tables and
\* order lists only: whatever the orders in which the maps typeDefs,
\* comdatDefs, attrGroupDefs and metadataDefs are iterated, the run produces
\* the module this run produced.
C8_IterationOrderIrrelevant ==
    pc = "done" /\ Last(trace).phase = "8" =>
       \A it \in IterOrders(old) :
          addDefs(old, new, BeforePhase8(m), it) = [m |-> m, panic |-> ret = Panicked]

\* A run over maps with several keys each, so that iteration orders differ.
C8_Witness ==
    /\ pc = "done" /\ ret = ReturnModule
    /\ Cardinality(old.typeDefs) = 2
    /\ Cardinality(old.metadataDefs) = 1
    /\ Len(m.TypeDefs) = 2

\* The steps of a run of translate in which no phase fails.
FullRun(o, td) ==
    <<[phase |-> "1", iter |-> 0], [phase |-> "2", iter |-> 0], [phase |-> "3", iter |-> 0],
      [phase |-> "4a", iter |-> 0], [phase |-> "4b", iter |-> 0]>>
    \o [i \in 1..Len(o.useListOrders) |-> [phase |-> "5", iter |-> i]]
    \o [i \in 1..Len(o.useListOrderBBs) |-> [phase |-> "6", iter |-> i]]
    \o [i \in 1..Len(td) |-> [phase |-> "7", iter |-> i]]
    \o <<[phase |-> "8", iter |-> 0]>>

\* C3: translate runs phases 1, 2, 3, 4a, 4b, 5, 6, 7, 8 in that order, each
\* only after every earlier one returned without error; the first error (of
\* a phase, a use-list-order record or a pending constant) ends the call with
\* a nil module and that error, and phase 8 runs only if all before succeeded.
C3_PhaseOrder ==
    /\ Len(trace) <= Len(FullRun(old, todo))
    /\ \A i \in DOMAIN trace :
          /\ [phase |-> trace[i].phase, iter |-> trace[i].iter] = FullRun(old, todo)[i]
          /\ trace[i].failed => i = Len(trace)
    /\ (pc # "done") <=> (ret = Running)
    /\ (trace # <<>> /\ Last(trace).failed) =>
          /\ pc = "done"
          /\ ret = ReturnError(Error(Last(trace).phase, Last(trace).iter))
          /\ ~ret.module
    /\ (ret.kind = "returned" /\ ret.err # NoError) =>
          /\ ~ret.module
          /\ trace # <<>> /\ Last(trace).failed
    /\ (\E i \in DOMAIN trace : trace[i].phase = "8") =>
          /\ \A i \in DOMAIN trace : ~trace[i].failed
          /\ [i \in DOMAIN trace |-> [phase |-> trace[i].phase, iter |-> trace[i].iter]]
               = FullRun(old, todo)
    /\ (pc = "done" /\ ret.kind # "panicked" /\ ret.err = NoError) =>
          /\ ret = ReturnModule
          /\ Last(trace).phase = "8"

\* The second use-list-order record failed: the call ended there.
C3_Witness ==
    /\ pc = "done"
    /\ ret = ReturnError(Error("5", 2))
    /\ Len(m.UseListOrders) = 1

\* C9: in addDefsToModule a key of an AST-side table or order list without an
\* entry in the IR-side table, or an identifier of globalOrder /
\* indirectSymbolDefOrder / funcOrder whose IR object is of the wrong Go type,
\* is never skipped: the call panics and translate returns no module.
C9_InconsistencyPanics ==
    (pc = "done" /\ Last(trace).phase = "8") =>
       /\ (~AllKeysPresent \/ ~AllKindsRight) <=> (ret = Panicked)
       /\ ret = Panicked => ~ret.module /\ ret.kind # "returned"

\* A global identifier without IR object, after a type definition that was
\* assembled, made phase 8 panic.
C9_Witness ==
    /\ pc = "done" /\ ret = Panicked
    /\ Len(m.TypeDefs) = 1
    /\ \E x \in Range(old.globalOrder) : x \notin DOMAIN new.globals

\* ------------------------------------------------------------------------
\* Properties of Function.AssignIDs (under SpecAssign).

IsDecimal(name) == name # <<>> /\ \A i \in DOMAIN name : name[i] \in 48..57

RECURSIVE DecimalValue(_)
DecimalValue(name) ==
    IF name = <<>> THEN 0
    ELSE 10 * DecimalValue(SubSeq(name, 1, Len(name) - 1)) + (name[Len(name)] - 48)

\* name is the decimal numeral of n, as a local ID is written.
Denotes(name, n) ==
    /\ IsDecimal(name)
    /\ Len(name) = 1 \/ name[1] # 48
    /\ DecimalValue(name) = n

RECURSIVE FlatBlocks(_)
FlatBlocks(blocks) ==
    IF blocks = <<>> THEN <<>>
    ELSE <<[class |-> "Block", name |-> Head(blocks).name, void |-> FALSE]>>
         \o Head(blocks).Insts \o <<Head(blocks).Term>> \o FlatBlocks(Tail(blocks))

\* The entities of a function in walk order: the parameters, then for each
\* block the block, its instructions and its terminator.
WalkOrder(fn) == fn.Params \o FlatBlocks(fn.Blocks)

\* Parameters, blocks, and instructions and terminators of non-void type.
HasValue(e) == e.class \in {"Param", "Block"} \/ (e.class # "nil" /\ ~e.void)

\* The local IDs that the values of fn carry are, in walk order, 0, 1, 2, ...
GapFree(fn) ==
    LET ids == SelectSeq(WalkOrder(fn), LAMBDA e : HasValue(e) /\ IsDecimal(e.name))
    IN \A i \in DOMAIN ids : Denotes(ids[i].name, i - 1)

\* Void calls and invokes and entities that are not named values are as
\* they were before the call.
VoidUntouched(h) ==
    LET b == WalkOrder(h.before)
        a == WalkOrder(h.after)
    IN /\ Len(a) = Len(b)
       /\ \A i \in DOMAIN b : ~HasValue(b[i]) => a[i] = b[i]

\* The claim of C4 as stated, for every function: if AssignIDs returns nil,
\* the local IDs of parameters, blocks, non-void instructions and non-void
\* terminators in walk order are 0, 1, 2, ..., and void calls, void invokes
\* and entities that are not named values get no ID.
C4_Original ==
    \A k \in DOMAIN errs :
       ~errs[k].bad => GapFree(hist[k].after) /\ VoidUntouched(hist[k])

\* C4 (amended): the same for every function with at least one basic block.
C4_GapFreeIDs ==
    \A k \in DOMAIN errs :
       (~errs[k].bad /\ Len(hist[k].before.Blocks) > 0) =>
          GapFree(hist[k].after) /\ VoidUntouched(hist[k])

\* AssignIDs returned nil on a function with a parameter, a block, a void
\* call that stayed unnamed and a value that got ID 2.
C4_Witness ==
    /\ calls >= 1 /\ ~errs[1].bad
    /\ Len(hist[1].before.Params) = 1 /\ Len(hist[1].before.Blocks) = 1
    /\ Len(hist[1].before.Blocks[1].Insts) = 2
    /\ hist[1].before.Blocks[1].Insts[1] = [class |-> "InstCall", name |-> <<>>, void |-> TRUE]
    /\ hist[1].after.Blocks[1].Insts[1].name = <<>>
    /\ hist[1].after.Blocks[1].Insts[2].name = <<50>>

\* C5: if a first call of AssignIDs returns nil, a second call on the same
\* function returns nil and leaves every name unchanged.
C5_Idempotent ==
    (Len(errs) >= 2 /\ ~errs[1].bad) =>
       /\ ~errs[2].bad
       /\ hist[2].after = hist[1].after

\* Two calls on a function with blocks whose first call assigned IDs.
C5_Witness ==
    /\ Len(errs) >= 2 /\ ~errs[1].bad
    /\ Len(hist[1].before.Blocks) > 0
    /\ hist[1].after # hist[1].before
    /\ Len(logs[2]) >= 3

Names(fn) == [i \in DOMAIN WalkOrder(fn) |-> WalkOrder(fn)[i].name]

\* The claim of C6 as stated: on func(i32, i32 %x, i32) with an unnamed entry
\* block holding an unnamed add and an unnamed sub, the parameters become
\* 0, x, 2, the block 1, the add 3 and the sub 4.
C6_Original ==
    (calls >= 1 /\ hist[1].before = PackingFunction) =>
       /\ ~errs[1].bad
       /\ Names(hist[1].after) = <<<<48>>, <<120>>, <<50>>, <<49>>, <<51>>, <<52>>, <<>>>>

\* C6 (amended): the parameters become 0, x, 1, the block 2, the add 3 and
\* the sub 4.
C6_Packing ==
    (calls >= 1 /\ hist[1].before = PackingFunction) =>
       /\ ~errs[1].bad
       /\ Names(hist[1].after) = <<<<48>>, <<120>>, <<49>>, <<50>>, <<51>>, <<52>>, <<>>>>

C6_Witness == calls >= 1 /\ hist[1].before = PackingFunction /\ f # PackingFunction

\* C7: in AssignIDs on a function with a basic block, an entity that carries
\* a numeric name is compared with the counter: if equal the counter
\* advances by one and the name is kept, otherwise AssignIDs returns an error
\* at that entity and visits no further one; an entity with a non-empty,
\* non-numeric name causes no error and does not advance the counter.
C7_NumericNamesChecked ==
    \A k \in DOMAIN logs :
       /\ Len(hist[k].before.Blocks) > 0 =>
             errs[k].bad = (logs[k] # <<>> /\ Last(logs[k]).failed)
       /\ \A i \in DOMAIN logs[k] :
             LET e == logs[k][i] IN
             /\ IsDecimal(e.before.name) =>
                   IF Denotes(e.before.name, e.id)
                   THEN ~e.failed /\ e.idAfter = e.id + 1 /\ e.after = e.before
                   ELSE /\ e.failed /\ i = Len(logs[k])
                        /\ errs[k].bad /\ errs[k].got = e.before.name
                        /\ Denotes(errs[k].want, e.id)
                        /\ e.after = e.before
             /\ (e.before.name # <<>> /\ ~IsDecimal(e.before.name)) =>
                   ~e.failed /\ e.idAfter = e.id /\ e.after = e.before

\* A call that passed a matching numeric name and a non-numeric name and
\* failed at a numeric name that did not match, leaving the unnamed add
\* after it unnamed.
C7_Witness ==
    /\ calls >= 1 /\ errs[1].bad
    /\ Len(logs[1]) = 3
    /\ logs[1][1].before.name = <<48>>
    /\ logs[1][2].before.name = <<120>>
    /\ logs[1][3].before.name = <<48>>
    /\ Len(hist[1].before.Blocks) = 1
    /\ Len(hist[1].before.Blocks[1].Insts) = 1
    /\ hist[1].before.Blocks[1].Insts[1] = [class |-> "InstAdd", name |-> <<>>, void |-> FALSE]
    /\ hist[1].after.Blocks[1].Insts[1].name = <<>>

\* ------------------------------------------------------------------------
\* Properties of Alias.Type (under SpecAlias).

\* The claim of C10 as stated: after any NewAlias, assignments to Aliasee and
\* calls of Type, the type Type returned is the pointer type of the alias's
\* current aliasee, and Type panics only when the aliasee's type is no
\* pointer type.
C10_Original ==
    /\ (alias # NoAlias /\ typeRet # NilType) =>
          /\ typeRet.kind = "pointer"
          /\ typeRet = alias.Aliasee.typ
    /\ aliasPanic => alias = NoAlias

====
